---- MODULE Spec2Model ----
(***************************************************************************)
(* Model of format-doc/scripts/bootstrap_format_doc.py.                    *)
(*                                                                         *)
(* Text is a sequence of symbols.  A symbol is a one-character string; the *)
(* fixed sentences of the templates (which contain no tag, no newline and  *)
(* are never scanned character by character) are one symbol each.  A path  *)
(* is the sequence of its components below the root, each a text.          *)
(***************************************************************************)
EXTENDS Integers, Sequences, FiniteSets, TLC

\* ------------------------------------------------------------------ str

NL == "\n"

Whitespace == {" ", NL, "\t"}

UpperCase == <<"A", "B", "C", "D", "E", "F", "G", "H", "I", "J", "K", "L", "M",
               "N", "O", "P", "Q", "R", "S", "T", "U", "V", "W", "X", "Y", "Z">>

LowerCase == <<"a", "b", "c", "d", "e", "f", "g", "h", "i", "j", "k", "l", "m",
               "n", "o", "p", "q", "r", "s", "t", "u", "v", "w", "x", "y", "z">>

Digits == {"0", "1", "2", "3", "4", "5", "6", "7", "8", "9"}

Range(f) == {f[i] : i \in DOMAIN f}

IdentStart == Range(UpperCase) \cup Range(LowerCase) \cup {"_"}

IdentChar == IdentStart \cup Digits

\* str.lower() on one character
LowerCh(c) ==
  IF c \in Range(UpperCase)
    THEN LowerCase[CHOOSE i \in DOMAIN UpperCase : UpperCase[i] = c]
    ELSE c

\* str.lower()
Lower(s) == [i \in 1..Len(s) |-> LowerCh(s[i])]

\* s[i:].startswith(t), i counted from 1
StartsAt(s, i, t) ==
  /\ i + Len(t) - 1 <= Len(s)
  /\ \A k \in 1..Len(t) : s[i + k - 1] = t[k]

\* str.startswith
StartsWith(s, t) == StartsAt(s, 1, t)

\* str.endswith
EndsWith(s, t) == Len(t) <= Len(s) /\ StartsAt(s, Len(s) - Len(t) + 1, t)

\* t in s
Contains(s, t) == \E i \in 1..(Len(s) - Len(t) + 1) : StartsAt(s, i, t)

\* s[i:], i counted from 1
From(s, i) == SubSeq(s, i, Len(s))

\* str.find(t) counted from 1; 0 when t does not occur
Find(s, t) ==
  IF Contains(s, t)
    THEN CHOOSE i \in 1..(Len(s) - Len(t) + 1) :
           /\ StartsAt(s, i, t)
           /\ \A j \in 1..(i - 1) : ~StartsAt(s, j, t)
    ELSE 0

\* str.rfind(t) counted from 1; 0 when t does not occur
RFind(s, t) ==
  IF Contains(s, t)
    THEN CHOOSE i \in 1..(Len(s) - Len(t) + 1) :
           /\ StartsAt(s, i, t)
           /\ \A j \in (i + 1)..(Len(s) - Len(t) + 1) : ~StartsAt(s, j, t)
    ELSE 0

RECURSIVE Join(_, _)
\* sep.join(parts)
Join(parts, sep) ==
  IF Len(parts) = 0 THEN <<>>
  ELSE IF Len(parts) = 1 THEN parts[1]
  ELSE parts[1] \o sep \o Join(Tail(parts), sep)

RECURSIVE Concat(_)
\* "".join(parts)
Concat(parts) == IF parts = <<>> THEN <<>> ELSE parts[1] \o Concat(Tail(parts))

RECURSIVE Split(_, _)
\* str.split(sep)
Split(s, sep) ==
  LET i == Find(s, sep)
  IN IF i = 0 THEN <<s>>
     ELSE <<SubSeq(s, 1, i - 1)>> \o Split(From(s, i + Len(sep)), sep)

\* str.strip()
Strip(s) ==
  LET keep == {i \in 1..Len(s) : s[i] \notin Whitespace}
  IN IF keep = {} THEN <<>>
     ELSE SubSeq(s,
                 CHOOSE i \in keep : \A j \in keep : i <= j,
                 CHOOSE i \in keep : \A j \in keep : i >= j)

RECURSIVE splitlines(_)
\* str.splitlines() of text whose line boundaries are "\n" (read_text has
\* translated the other newline forms)
splitlines(s) ==
  IF s = <<>> THEN <<>>
  ELSE LET i == Find(s, <<NL>>)
       IN IF i = 0 THEN <<s>>
          ELSE <<SubSeq(s, 1, i - 1)>> \o splitlines(From(s, i + 1))

RECURSIVE splitlines_keepends(_)
\* str.splitlines(keepends=True)
splitlines_keepends(s) ==
  IF s = <<>> THEN <<>>
  ELSE LET i == Find(s, <<NL>>)
       IN IF i = 0 THEN <<s>>
          ELSE <<SubSeq(s, 1, i)>> \o splitlines_keepends(From(s, i + 1))

\* seq[:n] for n >= 0
Take(seq, n) == SubSeq(seq, 1, IF n < Len(seq) THEN n ELSE Len(seq))

\* str(n) for a count below 100
DigitOf == <<"1", "2", "3", "4", "5", "6", "7", "8", "9">>

FormatInt(n) ==
  LET d(k) == IF k = 0 THEN "0" ELSE DigitOf[k]
  IN IF n < 10 THEN <<d(n)>> ELSE <<d(n \div 10), d(n % 10)>>

\* code point order of the characters that occur in paths
CharOrder == <<"-", ".", "/", "0", "1", "2", "3", "4", "5", "6", "7", "8", "9">>
             \o UpperCase \o <<"_">> \o LowerCase

Ord(c) == CHOOSE i \in DOMAIN CharOrder : CharOrder[i] = c

RECURSIVE StrLess(_, _)
\* a < b on str
StrLess(a, b) ==
  IF b = <<>> THEN FALSE
  ELSE IF a = <<>> THEN TRUE
  ELSE IF a[1] = b[1] THEN StrLess(Tail(a), Tail(b))
  ELSE Ord(a[1]) < Ord(b[1])

RECURSIVE SeqLess(_, _)
\* a < b on tuples of str (the parts of a Path)
SeqLess(a, b) ==
  IF b = <<>> THEN FALSE
  ELSE IF a = <<>> THEN TRUE
  ELSE IF a[1] = b[1] THEN SeqLess(Tail(a), Tail(b))
  ELSE StrLess(a[1], b[1])

\* sorted(S, key=Key) for a set S whose keys are distinct; Less(x, y) orders keys
SortBy(S, Key(_), Less(_, _)) ==
  [i \in 1..Cardinality(S) |->
     CHOOSE x \in S : Cardinality({y \in S : Less(Key(y), Key(x))}) = i - 1]

\* sorted(seq, key=Key): a stable sort, equal keys keep their order
StableSortBy(seq, Key(_), Less(_, _)) ==
  LET before(i) == {j \in DOMAIN seq :
                      \/ Less(Key(seq[j]), Key(seq[i]))
                      \/ (~Less(Key(seq[i]), Key(seq[j])) /\ j < i)}
  IN [r \in 1..Len(seq) |->
        seq[CHOOSE i \in DOMAIN seq : Cardinality(before(i)) = r - 1]]

\* ------------------------------------------------------------------ re
\* A backtracking matcher for the regular expressions of the script.  A pattern
\* is a tagged tuple; Ends(r, s, i) is the sequence of positions at which a match
\* of r that starts at position i of s can end, in the order in which Python's
\* matcher tries them (greedy: longest first, lazy: shortest first).  Every
\* repetition of the script's patterns repeats one character class.

Lit(t) == <<"lit", t>>
OneOf(S) == <<"set", S>>
NoneOf(S) == <<"nset", S>>
AnyButNewline == <<"nset", {NL}>>
AnyChar == <<"nset", {}>>
Cat(rs) == <<"cat", rs>>
Alt(rs) == <<"alt", rs>>
Star(r) == <<"star", r>>
LazyStar(r) == <<"lazy", r>>
Plus(r) == <<"cat", <<r, <<"star", r>>>>>>
Opt(r) == <<"alt", <<r, <<"cat", <<>>>>>>>>
LineStart == <<"bol">>
WordBoundary == <<"wb">>
Space == <<"set", Whitespace>>
Spaces0 == Star(Space)
Spaces1 == Plus(Space)

IsWordAt(s, i) == i >= 1 /\ i <= Len(s) /\ s[i] \in IdentChar

\* the character class c (a "set" or an "nset") accepts the character ch
Accepts(c, ch) == IF c[1] = "set" THEN ch \in c[2] ELSE ch \notin c[2]

\* the number of characters from position i on that the class c accepts
RunLength(c, s, i) ==
  LET stops == {j \in i..Len(s) : ~Accepts(c, s[j])}
  IN IF stops = {} THEN Len(s) + 1 - i
     ELSE (CHOOSE j \in stops : \A k \in stops : j <= k) - i

RECURSIVE Ends(_, _, _)
RECURSIVE EndsCat(_, _, _, _)
RECURSIVE EndsEach(_, _, _, _, _)
RECURSIVE EndsAlt(_, _, _, _)

Ends(r, s, i) ==
  CASE r[1] = "lit" -> IF StartsAt(s, i, r[2]) THEN <<i + Len(r[2])>> ELSE <<>>
    [] r[1] = "set" -> IF i <= Len(s) /\ s[i] \in r[2] THEN <<i + 1>> ELSE <<>>
    [] r[1] = "nset" -> IF i <= Len(s) /\ s[i] \notin r[2] THEN <<i + 1>> ELSE <<>>
    [] r[1] = "bol" -> IF i = 1 \/ s[i - 1] = NL THEN <<i>> ELSE <<>>
    [] r[1] = "wb" -> IF IsWordAt(s, i - 1) # IsWordAt(s, i) THEN <<i>> ELSE <<>>
    [] r[1] = "cat" -> EndsCat(r[2], 1, s, i)
    [] r[1] = "alt" -> EndsAlt(r[2], 1, s, i)
    [] r[1] = "star" -> [k \in 1..(RunLength(r[2], s, i) + 1) |->
                           i + RunLength(r[2], s, i) + 1 - k]
    [] r[1] = "lazy" -> [k \in 1..(RunLength(r[2], s, i) + 1) |-> i + k - 1]

\* the parts rs[k..] in sequence, from position i
EndsCat(rs, k, s, i) ==
  IF k > Len(rs) THEN <<i>>
  ELSE EndsEach(rs, k + 1, s, Ends(rs[k], s, i), 1)

\* the parts rs[k..] from each of the positions es[j..], in order
EndsEach(rs, k, s, es, j) ==
  IF j > Len(es) THEN <<>>
  ELSE EndsCat(rs, k, s, es[j]) \o EndsEach(rs, k, s, es, j + 1)

\* the alternatives rs[k..] from position i, in order
EndsAlt(rs, k, s, i) ==
  IF k > Len(rs) THEN <<>>
  ELSE Ends(rs[k], s, i) \o EndsAlt(rs, k + 1, s, i)

\* A pattern with one capturing group is [pre, grp, post].  MatchAt is the
\* match that starts at position p: <<start of group, end of group, end>>, or <<>>.
Pattern(pre, grp, post) == [pre |-> pre, grp |-> grp, post |-> post]

RECURSIVE MatchPost(_, _, _, _, _)

\* the group ends at es[k] and tail holds the ends of the rest from there
MatchPostAt(re, s, g, es, k, tail) ==
  IF tail # <<>> THEN <<g, es[k], tail[1]>>
  ELSE MatchPost(re, s, g, es, k + 1)

\* the first of the group ends es[k..] from which the rest matches
MatchPost(re, s, g, es, k) ==
  IF k > Len(es) THEN <<>>
  ELSE MatchPostAt(re, s, g, es, k, Ends(re.post, s, es[k]))

RECURSIVE MatchGroup(_, _, _, _)

\* m is the match with the group starting at gs[j], or <<>>
MatchGroupAt(re, s, gs, j, m) ==
  IF m # <<>> THEN m ELSE MatchGroup(re, s, gs, j + 1)

\* the first of the group starts gs[j..] from which group and rest match
MatchGroup(re, s, gs, j) ==
  IF j > Len(gs) THEN <<>>
  ELSE MatchGroupAt(re, s, gs, j, MatchPost(re, s, gs[j], Ends(re.grp, s, gs[j]), 1))

MatchAt(re, s, p) == MatchGroup(re, s, Ends(re.pre, s, p), 1)

\* the match at the least position of the function ms from positions to
\* matches, or <<>>
Leftmost(ms) ==
  LET starts == {q \in DOMAIN ms : ms[q] # <<>>}
  IN IF starts = {} THEN <<>>
     ELSE ms[CHOOSE q \in starts : \A k \in starts : q <= k]

\* re.search from position p: <<start of group, end of group, end>> of the
\* leftmost match, or <<>>
SearchFrom(re, s, p) == Leftmost([q \in p..(Len(s) + 1) |-> MatchAt(re, s, q)])

\* re.search(...) is not None / re.match(...) is not None
re_search(re, s) == SearchFrom(re, s, 1) # <<>>

\* the group of the match m in s as a list: empty without a match
GroupOf(s, m) == IF m = <<>> THEN <<>> ELSE <<SubSeq(s, m[1], m[2] - 1)>>

RECURSIVE FindAllFrom(_, _, _)

\* the groups of the match m and of the matches after it
FindAllAfter(re, s, m) ==
  IF m = <<>> THEN <<>> ELSE GroupOf(s, m) \o FindAllFrom(re, s, m[3])

FindAllFrom(re, s, p) == FindAllAfter(re, s, SearchFrom(re, s, p))

\* re.findall of a pattern with one group (none of the script's patterns
\* matches the empty string)
re_findall(re, s) == FindAllFrom(re, s, 1)

\* ------------------------------------------------------------------ constants

DEFAULT_EXTENSIONS ==
  {<<".", "j", "s">>, <<".", "j", "s", "x">>, <<".", "m", "j", "s">>, <<".", "c", "j", "s">>, <<".", "t", "s">>, <<".", "t", "s", "x">>, <<".", "p", "y">>, <<".", "g", "o">>, <<".", "j", "a", "v", "a">>}

DEFAULT_IGNORED_DIRS ==
  {<<".", "g", "i", "t">>, <<".", "i", "d", "e", "a">>, <<".", "v", "s", "c", "o", "d", "e">>, <<"n", "o", "d", "e", "_", "m", "o", "d", "u", "l", "e", "s">>, <<"d", "i", "s", "t">>, <<"b", "u", "i", "l", "d">>, <<"t", "a", "r", "g", "e", "t">>,
   <<"c", "o", "v", "e", "r", "a", "g", "e">>, <<"v", "e", "n", "d", "o", "r">>, <<".", "n", "e", "x", "t">>, <<"o", "u", "t">>, <<"_", "_", "p", "y", "c", "a", "c", "h", "e", "_", "_">>, <<".", "m", "v", "n">>, <<".", "g", "r", "a", "d", "l", "e">>}

REQUIRED_HEADER_TAGS == <<<<"@", "i", "n", "p", "u", "t">>, <<"@", "o", "u", "t", "p", "u", "t">>, <<"@", "p", "o", "s", "i", "t", "i", "o", "n">>>>

SYNC_TAGS == <<<<"@", "d", "o", "c", "-", "s", "y", "n", "c">>, <<"@", "a", "u", "t", "o", "-", "d", "o", "c">>>>

DEFAULT_INDEX_FILE == <<"I", "N", "D", "E", "X", ".", "m", "d">>

DEFAULT_ARCHITECTURE_FILE == <<"A", "R", "C", "H", "I", "T", "E", "C", "T", "U", "R", "E", ".", "m", "d">>

ROLE_KEYWORDS ==
  << <<<<"c", "o", "n", "t", "r", "o", "l", "l", "e", "r">>, "Controller">>,
     <<<<"s", "e", "r", "v", "i", "c", "e">>, "Service">>,
     <<<<"r", "e", "p", "o", "s", "i", "t", "o", "r", "y">>, "Repository">>,
     <<<<"r", "e", "p", "o">>, "Repository">>,
     <<<<"d", "a", "o">>, "Repository">>,
     <<<<"h", "a", "n", "d", "l", "e", "r">>, "Handler">>,
     <<<<"m", "o", "d", "e", "l">>, "Model">>,
     <<<<"e", "n", "t", "i", "t", "y">>, "Model">>,
     <<<<"d", "t", "o">>, "Model">>,
     <<<<"v", "o">>, "Model">>,
     <<<<"s", "c", "h", "e", "m", "a">>, "Schema">>,
     <<<<"c", "o", "n", "f", "i", "g">>, "Config">>,
     <<<<"u", "t", "i", "l">>, "Utility">>,
     <<<<"h", "e", "l", "p", "e", "r">>, "Utility">>,
     <<<<"a", "p", "i">>, "API">>,
     <<<<"v", "i", "e", "w">>, "UI">>,
     <<<<"c", "o", "m", "p", "o", "n", "e", "n", "t">>, "UI">> >>

\* the default of summarize_items' max_items
DefaultMaxItems == 5

\* the default of --max-header-lines
DefaultMaxHeaderLines == 80

\* ------------------------------------------------------------------ pathlib
\* A path is the tuple of its components below the root; the root is <<>>.  The
\* modelled trees hold no symbolic links, so Path.resolve() changes no path.

Root == <<>>

\* Path.name
Name(path) == path[Len(path)]

\* Path.parent
Parent(path) == SubSeq(path, 1, Len(path) - 1)

\* folder / name
Child(folder, name) == Append(folder, name)

\* the position of the dot that starts Path.suffix, or 0
SuffixDot(name) ==
  LET i == RFind(name, <<".">>)
  IN IF i > 1 /\ i < Len(name) THEN i ELSE 0

\* Path.suffix
Suffix(path) ==
  LET i == SuffixDot(Name(path))
  IN IF i = 0 THEN <<>> ELSE From(Name(path), i)

\* Path.stem
Stem(path) ==
  LET i == SuffixDot(Name(path))
  IN IF i = 0 THEN Name(path) ELSE SubSeq(Name(path), 1, i - 1)

\* path.relative_to(root).as_posix()
RelPosix(path) == IF path = Root THEN <<".">> ELSE Join(path, <<"/">>)

\* the part of path.as_posix() that follows the root's own as_posix()
PosixBelowRoot(path) == Concat([i \in 1..Len(path) |-> <<"/">> \o path[i]])

\* ------------------------------------------------------------------ helpers

normalize_extensions(extra_ext) ==
  DEFAULT_EXTENSIONS \cup
    {IF StartsWith(Lower(Strip(extra_ext[i])), <<".">>)
       THEN Lower(Strip(extra_ext[i]))
       ELSE <<".">> \o Lower(Strip(extra_ext[i])) :
     i \in {j \in DOMAIN extra_ext : Lower(Strip(extra_ext[j])) # <<>>}}

\* the fixed sentences of the zh locale, one symbol each
ZhSymbols ==
  {"zh:to be completed (update from the code)",
   "zh:located in ", "zh:, serving as ", "zh: layer component.",
   "zh:update this header and the folder INDEX.md when this file changes.",
   "zh:this folder contains ", "zh: source files, for ", "zh: related implementation.",
   "zh: component, handles ", "zh: related logic.",
   "zh:modular folder structure, docs maintained as code-derived artifacts.",
   "zh:detected ", "zh: code folders, each described by an INDEX.md file.",
   "zh:cross-folder dependencies: read imports and the @input/@output header fields.",
   "zh:- (no module folders yet)", "zh: folder responsibilities."}

contains_cjk(text) == \E i \in DOMAIN text : text[i] \in ZhSymbols

has_complete_header_any(content, max_header_lines) ==
  LET snippet == Lower(Join(Take(splitlines(content), max_header_lines), <<NL>>))
  IN /\ \E i \in DOMAIN REQUIRED_HEADER_TAGS :
          Contains(snippet, REQUIRED_HEADER_TAGS[i])
     /\ \E i \in DOMAIN SYNC_TAGS : Contains(snippet, SYNC_TAGS[i])

has_complete_header(content, max_header_lines) ==
  LET snippet == Lower(Join(Take(splitlines(content), max_header_lines), <<NL>>))
  IN /\ \A i \in DOMAIN REQUIRED_HEADER_TAGS :
          Contains(snippet, REQUIRED_HEADER_TAGS[i])
     /\ \E i \in DOMAIN SYNC_TAGS : Contains(snippet, SYNC_TAGS[i])

RECURSIVE FirstRole(_, _)
\* the loop of infer_role from table entry k on
FirstRole(lowered, k) ==
  IF k > Len(ROLE_KEYWORDS) THEN "Module"
  ELSE IF Contains(lowered, ROLE_KEYWORDS[k][1]) THEN ROLE_KEYWORDS[k][2]
  ELSE FirstRole(lowered, k + 1)

infer_role_last(path) ==
  LET lowered == Lower(Stem(path))
      hits == {k \in DOMAIN ROLE_KEYWORDS : Contains(lowered, ROLE_KEYWORDS[k][1])}
  IN IF hits = {} THEN "Module"
     ELSE ROLE_KEYWORDS[CHOOSE k \in hits : \A j \in hits : j <= k][2]

infer_role(path) == FirstRole(Lower(Stem(path)), 1)

RECURSIVE UniqueTokens(_, _)
\* the first loop of summarize_items: items[k..] after the tokens in unique
UniqueTokens(items, unique) ==
  IF items = <<>> THEN unique
  ELSE LET token == Strip(items[1])
       IN IF token = <<>> \/ token \in Range(unique)
            THEN UniqueTokens(Tail(items), unique)
            ELSE UniqueTokens(Tail(items), Append(unique, token))

summarize_items_early(items, lang, max_items) ==
  LET unique == UniqueTokens(items, <<>>)
  IN IF unique = <<>>
       THEN IF lang = "zh"
              THEN <<"zh:to be completed (update from the code)">>
              ELSE <<"To be completed (update from code as needed).">>
     ELSE IF Len(unique) >= max_items
       THEN Join(Take(unique, max_items), <<",", " ">>) \o <<",", " ", ".", ".", ".">>
     ELSE Join(unique, <<",", " ">>)

summarize_items(items, lang, max_items) ==
  LET unique == UniqueTokens(items, <<>>)
  IN IF unique = <<>>
       THEN IF lang = "zh"
              THEN <<"zh:to be completed (update from the code)">>
              ELSE <<"To be completed (update from code as needed).">>
     ELSE IF Len(unique) > max_items
       THEN Join(Take(unique, max_items), <<",", " ">>) \o <<",", " ", ".", ".", ".">>
     ELSE Join(unique, <<",", " ">>)

\* ------------------------------------------------------------------ extractor

Quotes == {"'", "\""}

JsFamily == {<<".", "j", "s">>, <<".", "j", "s", "x">>, <<".", "m", "j", "s">>, <<".", "c", "j", "s">>, <<".", "t", "s">>, <<".", "t", "s", "x">>}

\* [A-Za-z_][A-Za-z0-9_]*
Identifier == Cat(<<OneOf(IdentStart), Star(OneOf(IdentChar))>>)

\* [A-Z][A-Za-z0-9_]*
CapitalIdentifier == Cat(<<OneOf(Range(UpperCase)), Star(OneOf(IdentChar))>>)

NoGroup == Cat(<<>>)

\* ^\s*import\s+.*?\s+from\s+['\"]([^'\"]+)['\"]
JsImportFrom ==
  Pattern(Cat(<<LineStart, Spaces0, Lit(<<"i", "m", "p", "o", "r", "t">>), Spaces1, LazyStar(AnyButNewline),
                Spaces1, Lit(<<"f", "r", "o", "m">>), Spaces1, OneOf(Quotes)>>),
          Plus(NoneOf(Quotes)),
          OneOf(Quotes))

\* require\(\s*['\"]([^'\"]+)['\"]\s*\)
JsRequire ==
  Pattern(Cat(<<Lit(<<"r", "e", "q", "u", "i", "r", "e", "(">>), Spaces0, OneOf(Quotes)>>),
          Plus(NoneOf(Quotes)),
          Cat(<<OneOf(Quotes), Spaces0, Lit(<<")">>)>>))

\* from\s+([A-Za-z0-9_\.]+)\s+import\s+
PyFromImport ==
  Pattern(Cat(<<Lit(<<"f", "r", "o", "m">>), Spaces1>>),
          Plus(OneOf(IdentChar \cup {"."})),
          Cat(<<Spaces1, Lit(<<"i", "m", "p", "o", "r", "t">>), Spaces1>>))

\* \"([^\"]+)\"
GoQuoted == Pattern(Lit(<<"\"">>), Plus(NoneOf({"\""})), Lit(<<"\"">>))

\* ^\s*import\s+([A-Za-z0-9_.*]+)\s*;
JavaImport ==
  Pattern(Cat(<<LineStart, Spaces0, Lit(<<"i", "m", "p", "o", "r", "t">>), Spaces1>>),
          Plus(OneOf(IdentChar \cup {".", "*"})),
          Cat(<<Spaces0, Lit(<<";">>)>>))

\* ^\s*export\s+(?:async\s+)?(?:function|class|const|let|var|interface|type|enum)\s+
\*   ([A-Za-z_][A-Za-z0-9_]*)
JsExportDecl ==
  Pattern(Cat(<<LineStart, Spaces0, Lit(<<"e", "x", "p", "o", "r", "t">>), Spaces1,
                Opt(Cat(<<Lit(<<"a", "s", "y", "n", "c">>), Spaces1>>)),
                Alt(<<Lit(<<"f", "u", "n", "c", "t", "i", "o", "n">>), Lit(<<"c", "l", "a", "s", "s">>), Lit(<<"c", "o", "n", "s", "t">>), Lit(<<"l", "e", "t">>),
                      Lit(<<"v", "a", "r">>), Lit(<<"i", "n", "t", "e", "r", "f", "a", "c", "e">>), Lit(<<"t", "y", "p", "e">>), Lit(<<"e", "n", "u", "m">>)>>),
                Spaces1>>),
          Identifier,
          NoGroup)

\* ^\s*export\s+default\b
JsExportDefault ==
  Pattern(Cat(<<LineStart, Spaces0, Lit(<<"e", "x", "p", "o", "r", "t">>), Spaces1, Lit(<<"d", "e", "f", "a", "u", "l", "t">>),
                WordBoundary>>),
          NoGroup,
          NoGroup)

\* ^\s*export\s*\{([^}]*)\}
JsExportList ==
  Pattern(Cat(<<LineStart, Spaces0, Lit(<<"e", "x", "p", "o", "r", "t">>), Spaces0, Lit(<<"{">>)>>),
          Star(NoneOf({"}"})),
          Lit(<<"}">>))

\* __all__\s*=\s*\[(.*?)\]   (re.DOTALL)
PyAll ==
  Pattern(Cat(<<Lit(<<"_", "_", "a", "l", "l", "_", "_">>), Spaces0, Lit(<<"=">>), Spaces0, Lit(<<"[">>)>>),
          LazyStar(AnyChar),
          Lit(<<"]">>))

\* ['\"]([A-Za-z0-9_]+)['\"]
PyQuotedName == Pattern(OneOf(Quotes), Plus(OneOf(IdentChar)), OneOf(Quotes))

\* ^def\s+([A-Za-z_][A-Za-z0-9_]*)\s*\(
PyDef ==
  Pattern(Cat(<<LineStart, Lit(<<"d", "e", "f">>), Spaces1>>),
          Identifier,
          Cat(<<Spaces0, Lit(<<"(">>)>>))

\* ^class\s+([A-Za-z_][A-Za-z0-9_]*)\b
PyClass ==
  Pattern(Cat(<<LineStart, Lit(<<"c", "l", "a", "s", "s">>), Spaces1>>),
          Identifier,
          WordBoundary)

\* ^\s*(?:type|var|const)\s+([A-Z][A-Za-z0-9_]*)\b
GoDecl ==
  Pattern(Cat(<<LineStart, Spaces0, Alt(<<Lit(<<"t", "y", "p", "e">>), Lit(<<"v", "a", "r">>), Lit(<<"c", "o", "n", "s", "t">>)>>),
                Spaces1>>),
          CapitalIdentifier,
          WordBoundary)

\* ^\s*func\s+([A-Z][A-Za-z0-9_]*)\s*\(
GoFunc ==
  Pattern(Cat(<<LineStart, Spaces0, Lit(<<"f", "u", "n", "c">>), Spaces1>>),
          CapitalIdentifier,
          Cat(<<Spaces0, Lit(<<"(">>)>>))

\* ^\s*func\s+\([^)]*\)\s+([A-Z][A-Za-z0-9_]*)\s*\(
GoMethod ==
  Pattern(Cat(<<LineStart, Spaces0, Lit(<<"f", "u", "n", "c">>), Spaces1, Lit(<<"(">>),
                Star(NoneOf({")"})), Lit(<<")">>), Spaces1>>),
          CapitalIdentifier,
          Cat(<<Spaces0, Lit(<<"(">>)>>))

\* ^\s*public\s+(?:final\s+|abstract\s+)?(?:class|interface|enum|record)\s+
\*   ([A-Za-z_][A-Za-z0-9_]*)\b
JavaPublicType ==
  Pattern(Cat(<<LineStart, Spaces0, Lit(<<"p", "u", "b", "l", "i", "c">>), Spaces1,
                Opt(Alt(<<Cat(<<Lit(<<"f", "i", "n", "a", "l">>), Spaces1>>),
                          Cat(<<Lit(<<"a", "b", "s", "t", "r", "a", "c", "t">>), Spaces1>>)>>)),
                Alt(<<Lit(<<"c", "l", "a", "s", "s">>), Lit(<<"i", "n", "t", "e", "r", "f", "a", "c", "e">>), Lit(<<"e", "n", "u", "m">>), Lit(<<"r", "e", "c", "o", "r", "d">>)>>),
                Spaces1>>),
          Identifier,
          WordBoundary)

\* #.*coding[:=]\s*[-\w.]+
CodingLine ==
  Pattern(Cat(<<Lit(<<"#">>), Star(AnyButNewline), Lit(<<"c", "o", "d", "i", "n", "g">>), OneOf({":", "="}),
                Spaces0, Plus(OneOf(IdentChar \cup {"-", "."}))>>),
          NoGroup,
          NoGroup)

\* token.strip().split(" as ")[0].strip() for each token of clause.split(","),
\* the empty names dropped
RECURSIVE ClauseNames(_)
ClauseNames(tokens) ==
  IF tokens = <<>> THEN <<>>
  ELSE LET name == Strip(Split(Strip(tokens[1]), <<" ", "a", "s", " ">>)[1])
       IN (IF name # <<>> THEN <<name>> ELSE <<>>) \o ClauseNames(Tail(tokens))

\* the modules of one stripped line of a .py file; m is the match of the
\* "from ... import" pattern at its start
PyLineImports(stripped, m) ==
  IF StartsWith(stripped, <<"i", "m", "p", "o", "r", "t", " ">>)
    THEN ClauseNames(Split(From(stripped, Len(<<"i", "m", "p", "o", "r", "t", " ">>) + 1), <<",">>))
  ELSE IF StartsWith(stripped, <<"f", "r", "o", "m", " ">>) THEN GroupOf(stripped, m)
  ELSE <<>>

PyStrippedImports(stripped) ==
  PyLineImports(stripped, MatchAt(PyFromImport, stripped, 1))

RECURSIVE PyImports(_)
\* the loop of infer_inputs over the lines of a .py file
PyImports(lines) ==
  IF lines = <<>> THEN <<>>
  ELSE PyStrippedImports(Strip(lines[1])) \o PyImports(Tail(lines))

RECURSIVE GoImports(_, _)

\* one iteration of the loop of infer_inputs over the lines of a .go file;
\* found is the quoted path of the stripped line as a list
GoLineImports(lines, in_block, stripped, found) ==
  IF StartsWith(stripped, <<"i", "m", "p", "o", "r", "t", " ", "(">>)
    THEN GoImports(Tail(lines), TRUE)
  ELSE IF in_block
    THEN IF StartsWith(stripped, <<")">>)
           THEN GoImports(Tail(lines), FALSE)
           ELSE found \o GoImports(Tail(lines), TRUE)
  ELSE IF StartsWith(stripped, <<"i", "m", "p", "o", "r", "t", " ">>)
    THEN found \o GoImports(Tail(lines), FALSE)
  ELSE GoImports(Tail(lines), FALSE)

GoStrippedImports(lines, in_block, stripped) ==
  GoLineImports(lines, in_block, stripped,
                GroupOf(stripped, SearchFrom(GoQuoted, stripped, 1)))

\* the loop of infer_inputs over the lines of a .go file
GoImports(lines, in_block) ==
  IF lines = <<>> THEN <<>>
  ELSE GoStrippedImports(lines, in_block, Strip(lines[1]))

\* the branches of infer_inputs
ExtInputItems(ext, content) ==
  IF ext \in JsFamily
    THEN re_findall(JsImportFrom, content) \o re_findall(JsRequire, content)
  ELSE IF ext = <<".", "p", "y">> THEN PyImports(splitlines(content))
  ELSE IF ext = <<".", "g", "o">> THEN GoImports(splitlines(content), FALSE)
  ELSE IF ext = <<".", "j", "a", "v", "a">> THEN re_findall(JavaImport, content)
  ELSE <<>>

\* the items of infer_inputs before summarize_items
InputItems(path, content) == ExtInputItems(Lower(Suffix(path)), content)

infer_inputs(path, content, lang) ==
  summarize_items(InputItems(path, content), lang, DefaultMaxItems)

\* the names of every export { ... } clause
RECURSIVE ExportListNames(_)
ExportListNames(clauses) ==
  IF clauses = <<>> THEN <<>>
  ELSE ClauseNames(Split(clauses[1], <<",">>)) \o ExportListNames(Tail(clauses))

\* the names of the __all__ list that all_match found in content
AllListNames(content, all_match) ==
  IF all_match # <<>>
    THEN re_findall(PyQuotedName, SubSeq(content, all_match[1], all_match[2] - 1))
    ELSE <<>>

\* the .py branch of infer_outputs
PyOutputItems(content) ==
  AllListNames(content, SearchFrom(PyAll, content, 1))
    \o re_findall(PyDef, content)
    \o re_findall(PyClass, content)

\* the branches of infer_outputs
ExtOutputItems(ext, content) ==
  IF ext \in JsFamily
    THEN re_findall(JsExportDecl, content)
         \o (IF re_search(JsExportDefault, content)
               THEN <<<<"d", "e", "f", "a", "u", "l", "t", " ", "e", "x", "p", "o", "r", "t">>>> ELSE <<>>)
         \o ExportListNames(re_findall(JsExportList, content))
  ELSE IF ext = <<".", "p", "y">> THEN PyOutputItems(content)
  ELSE IF ext = <<".", "g", "o">>
    THEN re_findall(GoDecl, content) \o re_findall(GoFunc, content)
         \o re_findall(GoMethod, content)
  ELSE IF ext = <<".", "j", "a", "v", "a">> THEN re_findall(JavaPublicType, content)
  ELSE <<>>

\* "if not items: items.append(path.stem)"
OrStem(items, path) == IF items = <<>> THEN <<Stem(path)>> ELSE items

\* the items of infer_outputs before summarize_items
OutputItems(path, content) ==
  OrStem(ExtOutputItems(Lower(Suffix(path)), content), path)

infer_outputs(path, content, lang) ==
  summarize_items(OutputItems(path, content), lang, DefaultMaxItems)

infer_position(path, lang) ==
  LET rel == RelPosix(Parent(path))
      rel_parent == IF rel = <<".">> THEN <<"r", "o", "o", "t">> ELSE rel
  IN IF lang = "zh"
       THEN <<"zh:located in ">> \o rel_parent \o <<"zh:, serving as ">>
            \o <<infer_role(path)>> \o <<"zh: layer component.">>
       ELSE <<"Located in ">> \o rel_parent \o <<", serving as a ">>
            \o <<infer_role(path)>> \o <<" layer component.">>

\* the header of build_header for the fields it has inferred
HeaderText(ext, inputs, outputs, position, sync_note) ==
  IF ext = <<".", "p", "y">>
    THEN <<"\"", "\"", "\"", "\n">>
         \o <<"@", "i", "n", "p", "u", "t", " ">> \o inputs \o <<NL>>
         \o <<"@", "o", "u", "t", "p", "u", "t", " ">> \o outputs \o <<NL>>
         \o <<"@", "p", "o", "s", "i", "t", "i", "o", "n", " ">> \o position \o <<NL>>
         \o <<"@", "d", "o", "c", "-", "s", "y", "n", "c", " ">> \o sync_note \o <<NL>>
         \o <<"\"", "\"", "\"">>
  ELSE IF ext = <<".", "g", "o">>
    THEN <<"/", "/", " ", "@", "i", "n", "p", "u", "t", " ">> \o inputs \o <<NL>>
         \o <<"/", "/", " ", "@", "o", "u", "t", "p", "u", "t", " ">> \o outputs \o <<NL>>
         \o <<"/", "/", " ", "@", "p", "o", "s", "i", "t", "i", "o", "n", " ">> \o position \o <<NL>>
         \o <<"/", "/", " ", "@", "d", "o", "c", "-", "s", "y", "n", "c", " ">> \o sync_note
  ELSE <<"/", "*", "*", "\n">>
       \o <<" ", "*", " ", "@", "i", "n", "p", "u", "t", " ">> \o inputs \o <<NL>>
       \o <<" ", "*", " ", "@", "o", "u", "t", "p", "u", "t", " ">> \o outputs \o <<NL>>
       \o <<" ", "*", " ", "@", "p", "o", "s", "i", "t", "i", "o", "n", " ">> \o position \o <<NL>>
       \o <<" ", "*", " ", "@", "d", "o", "c", "-", "s", "y", "n", "c", " ">> \o sync_note \o <<NL>>
       \o <<" ", "*", "/">>

build_header(path, content, lang) ==
  HeaderText(Lower(Suffix(path)),
             infer_inputs(path, content, lang),
             infer_outputs(path, content, lang),
             infer_position(path, lang),
             IF lang = "zh"
               THEN <<"zh:update this header and the folder INDEX.md when this file changes.">>
               ELSE <<"Update this header and folder INDEX.md when this file changes.">>)

\* the number of leading lines the header of a .py file goes after: index is
\* 1 after a shebang line and 0 otherwise
HeaderIndex(lines, index) ==
  IF index < Len(lines) /\ MatchAt(CodingLine, lines[index + 1], 1) # <<>>
    THEN index + 1 ELSE index

\* the .py file with the header between prefix and suffix
Spliced(prefix, header, suffix) ==
  prefix
    \o (IF prefix # <<>> /\ ~EndsWith(prefix, <<NL>>) THEN <<NL>> ELSE <<>>)
    \o header \o <<NL, NL>> \o suffix

\* the .py branch of insert_header from the index of the first code line on
SplicedAt(lines, index, header) ==
  Spliced(Concat(SubSeq(lines, 1, index)), header,
          Concat(SubSeq(lines, index + 1, Len(lines))))

\* the .py branch of insert_header
InsertIntoLines(lines, header) ==
  SplicedAt(lines,
            HeaderIndex(lines, IF lines # <<>> /\ StartsWith(lines[1], <<"#", "!">>) THEN 1 ELSE 0),
            header)

insert_header(path, content, header) ==
  IF Lower(Suffix(path)) = <<".", "p", "y">>
    THEN InsertIntoLines(splitlines_keepends(content), header)
    ELSE header \o <<NL, NL>> \o content
\* ------------------------------------------------------------------ renderers

build_folder_summary(folder, file_count, lang) ==
  LET rel0 == RelPosix(folder)
      rel == IF rel0 = <<".">> THEN <<"r", "o", "o", "t">> ELSE rel0
  IN IF lang = "zh"
       THEN <<"zh:this folder contains ">> \o FormatInt(file_count)
            \o <<"zh: source files, for ">> \o rel \o <<"zh: related implementation.">>
       ELSE <<"This folder contains ">> \o FormatInt(file_count)
            \o <<" source files for ">> \o rel \o <<" related implementation.">>

build_file_responsibility(path, role, lang) ==
  IF lang = "zh"
    THEN <<role>> \o <<"zh: component, handles ">> \o Stem(path) \o <<"zh: related logic.">>
    ELSE <<role>> \o <<" component for ">> \o Stem(path) \o <<" related logic.">>

render_index_file(folder, files, lang) ==
  LET title == IF folder = Root THEN <<"R", "o", "o", "t">> ELSE Name(folder)
      summary == build_folder_summary(folder, Len(files), lang)
      row(file_path) ==
        <<"|", " ">> \o Name(file_path) \o <<" ", "|", " ">> \o <<infer_role(file_path)>> \o <<" ", "|", " ">>
        \o build_file_responsibility(file_path, infer_role(file_path), lang) \o <<" ", "|">>
      lines ==
        << <<"<!-- FORMAT-DOC: Update when files in this folder change -->">>,
           <<>>,
           <<"#", " ">> \o title,
           <<>>,
           summary,
           <<>>,
           <<"#", "#", " ", "F", "i", "l", "e", "s">>,
           <<>>,
           <<"| File | Role | Responsibilities |">>,
           <<"|---|---|---|">> >>
        \o [i \in 1..Len(files) |-> row(files[i])]
        \o << <<>> >>
  IN Join(lines, <<NL>>)

build_architecture_overview(module_count, lang) ==
  IF lang = "zh"
    THEN << <<"zh:modular folder structure, docs maintained as code-derived artifacts.">>,
            <<"zh:detected ">> \o FormatInt(module_count)
              \o <<"zh: code folders, each described by an INDEX.md file.">>,
            <<"zh:cross-folder dependencies: read imports and the @input/@output header fields.">> >>
    ELSE << <<"This project uses a modular folder structure with docs maintained as code-derived artifacts.">>,
            <<"Detected ">> \o FormatInt(module_count)
              \o <<" code folders, each documented by an INDEX.md file.">>,
            <<"Cross-folder dependency flow should be read from imports and @input/@output headers.">> >>

build_module_desc(index_path, lang) ==
  LET rel0 == RelPosix(Parent(index_path))
      rel == IF rel0 = <<".">> THEN <<"r", "o", "o", "t">> ELSE rel0
  IN IF lang = "zh"
       THEN rel \o <<"zh: folder responsibilities.">>
       ELSE <<"Responsibilities for ">> \o rel \o <<".">>

\* the "- [module](link) - description" line of one index file
ModuleEntry(path, lang) ==
  LET rel_link == RelPosix(path)
      module0 == RelPosix(Parent(path))
      module_name == IF module0 = <<".">> THEN <<"r", "o", "o", "t">> ELSE module0
  IN <<"-", " ", "[">> \o module_name \o <<"]", "(">> \o rel_link \o <<")", " ", "-", " ">> \o build_module_desc(path, lang)

\* sorted(index_paths, key=lambda p: p.relative_to(root).as_posix())
SortedIndexPaths(index_paths) == StableSortBy(index_paths, RelPosix, StrLess)

render_architecture_file(index_paths, lang) ==
  LET overview == build_architecture_overview(Len(index_paths), lang)
      head ==
        << <<"<!-- FORMAT-DOC: Update when project structure or architecture changes -->">>,
           <<>>,
           <<"#", " ", "A", "r", "c", "h", "i", "t", "e", "c", "t", "u", "r", "e">>,
           <<>> >>
        \o Take(overview, 10)
        \o << <<>>, <<"#", "#", " ", "M", "o", "d", "u", "l", "e", "s">>, <<>> >>
      sorted == SortedIndexPaths(index_paths)
      entries ==
        IF index_paths = <<>>
          THEN IF lang = "zh"
                 THEN << <<"zh:- (no module folders yet)">> >>
                 ELSE << <<"-", " ", "(", "n", "o", " ", "m", "o", "d", "u", "l", "e", " ", "f", "o", "l", "d", "e", "r", "s", " ", "f", "o", "u", "n", "d", ")">> >>
          ELSE [i \in 1..Len(sorted) |-> ModuleEntry(sorted[i], lang)]
  IN Join(head \o entries \o << <<>> >>, <<NL>>)

\* ------------------------------------------------------------------ tree walker

\* the components of path that name directories
DirParts(path) == {path[i] : i \in 1..(Len(path) - 1)}

Pruned_named(name, ignored_dirs) == name \in ignored_dirs

\* os.walk does not descend into a directory of this name
Pruned(name, ignored_dirs) == name \in ignored_dirs \/ StartsWith(name, <<".">>)

RECURSIVE Walk(_, _, _, _, _)
\* the files os.walk yields below current_dir with the pruning of the loop body;
\* files is the set of file paths of the tree and dirs its directories
Walk(current_dir, files, dirs, extensions, ignored_dirs) ==
  LET dirnames == {d \in dirs : d # Root /\ Parent(d) = current_dir
                                /\ ~Pruned(Name(d), ignored_dirs)}
      here == {p \in files : Parent(p) = current_dir /\ Lower(Suffix(p)) \in extensions}
  IN here \cup UNION {Walk(d, files, dirs, extensions, ignored_dirs) : d \in dirnames}

Identity(x) == x

collect_source_files(files, dirs, extensions, ignored_dirs) ==
  SortBy(Walk(Root, files, dirs, extensions, ignored_dirs), Identity, SeqLess)

\* the folders of source_files in order of first occurrence (dict insertion order)
RECURSIVE FolderOrder(_, _)
FolderOrder(source_files, seen) ==
  IF source_files = <<>> THEN seen
  ELSE IF Parent(source_files[1]) \in Range(seen)
    THEN FolderOrder(Tail(source_files), seen)
    ELSE FolderOrder(Tail(source_files), Append(seen, Parent(source_files[1])))

LowerName(path) == Lower(Name(path))

\* the dict of group_files_by_folder as a sequence of <<folder, files>>
group_files_by_folder(source_files) ==
  LET folders == FolderOrder(source_files, <<>>)
      members(folder) == SelectSeq(source_files, LAMBDA p : Parent(p) = folder)
  IN [i \in 1..Len(folders) |->
        <<folders[i], StableSortBy(members(folders[i]), LowerName, StrLess)>>]

\* sorted(files_by_folder.items(), key=lambda item: item[0].as_posix())
FolderKey(item) == PosixBelowRoot(item[1])

SortedFolders(files_by_folder) == StableSortBy(files_by_folder, FolderKey, StrLess)

\* ------------------------------------------------------------------ state

VARIABLES
  disk,             \* the files of the tree: path -> text as read_text returns it
  dirs,             \* the directories of the tree
  unreadable,       \* files whose read_text raises OSError
  readonly,         \* files whose write_text raises OSError
  root_kind,        \* what args.root names: "dir", "file" or "missing"
  args,             \* the parsed command line
  run,              \* 1 in the first invocation of main, 2 in the second
  pc,               \* the position of main
  language,         \* main's language
  source_files,     \* main's source_files
  files_by_folder,  \* main's files_by_folder, a sequence of <<folder, files>>
  index_paths,      \* main's index_paths
  stats,            \* main's Stats
  cursor,           \* the position of the running loop in its sequence
  warnings,         \* the number of WARN lines printed
  summary_printed,  \* "Bootstrap summary:" has been printed
  status,           \* the exit status of the invocation, -1 while it runs
  calls,            \* the write_if_changed calls of this invocation, in order
  start_disk,       \* disk when this invocation started
  start_dirs,       \* dirs when this invocation started
  index_disk,       \* disk when the index phase of this invocation started
  first_disk,       \* disk when the first invocation returned
  probe             \* the last call of the function bench: [fn, in, out]

vars ==
  <<disk, dirs, unreadable, readonly, root_kind, args, run, pc, language,
    source_files, files_by_folder, index_paths, stats, cursor, warnings,
    summary_printed, status, calls, start_disk, start_dirs, index_disk,
    first_disk, probe>>

NoProbe == [fn |-> "none", in |-> <<>>, out |-> <<>>]

\* ------------------------------------------------------------------ idempotent writer

\* path.parent and its ancestors, as mkdir(parents=True) leaves them
Ancestors(path) == {SubSeq(path, 1, n) : n \in 0..(Len(path) - 1)}

write_if_changed_wet(d, ds, path, new_content, dry_run) ==
  LET existed == path \in DOMAIN d
      old_content == IF existed THEN d[path] ELSE <<>>
      action == IF existed THEN "update" ELSE "create"
      call(result) == [path |-> path, new_content |-> new_content, existed |-> existed,
                       old_content |-> old_content, result |-> result]
  IN IF existed /\ path \in unreadable
       THEN [call |-> call("raised"), disk |-> d, dirs |-> ds]
     ELSE IF old_content = new_content
       THEN [call |-> call("unchanged"), disk |-> d, dirs |-> ds]
     ELSE IF existed /\ path \in readonly
       THEN [call |-> call("raised"), disk |-> d, dirs |-> ds \cup Ancestors(path)]
     ELSE [call |-> call(action),
           disk |-> [q \in DOMAIN d \cup {path} |-> IF q = path THEN new_content ELSE d[q]],
           dirs |-> ds \cup Ancestors(path)]

\* write_if_changed on the tree (d, ds): the value it returns ("raised" when
\* read_text or write_text raises OSError) and the tree it leaves
write_if_changed(d, ds, path, new_content, dry_run) ==
  LET existed == path \in DOMAIN d
      old_content == IF existed THEN d[path] ELSE <<>>
      action == IF existed THEN "update" ELSE "create"
      call(result) == [path |-> path, new_content |-> new_content, existed |-> existed,
                       old_content |-> old_content, result |-> result]
  IN IF existed /\ path \in unreadable
       THEN [call |-> call("raised"), disk |-> d, dirs |-> ds]
     ELSE IF old_content = new_content
       THEN [call |-> call("unchanged"), disk |-> d, dirs |-> ds]
     ELSE IF dry_run
       THEN [call |-> call(action), disk |-> d, dirs |-> ds]
     ELSE IF existed /\ path \in readonly
       THEN [call |-> call("raised"), disk |-> d, dirs |-> ds \cup Ancestors(path)]
     ELSE [call |-> call(action),
           disk |-> [q \in DOMAIN d \cup {path} |-> IF q = path THEN new_content ELSE d[q]],
           dirs |-> ds \cup Ancestors(path)]

\* ------------------------------------------------------------------ orchestrator

Stats0 ==
  [files_scanned |-> 0, folders_scanned |-> 0, headers_added |-> 0,
   index_created |-> 0, index_updated |-> 0, architecture_created |-> 0,
   architecture_updated |-> 0, skipped_existing_index |-> 0,
   skipped_existing_architecture |-> 0]

detect_language(d, architecture_file, index_file) ==
  LET candidates == {Child(Root, architecture_file)}
                    \cup {p \in DOMAIN d : Name(p) = index_file}
  IN IF \E p \in candidates :
          p \in DOMAIN d /\ p \notin unreadable /\ contains_cjk(d[p])
       THEN "zh"
       ELSE "zh"

\* main's ignored_dirs
IgnoredDirs(a) ==
  DEFAULT_IGNORED_DIRS
    \cup {Strip(a.ignore_dir[i]) : i \in {j \in DOMAIN a.ignore_dir : Strip(a.ignore_dir[j]) # <<>>}}

\* where main goes after the phase `after`: the next phase that has a step
NextPhase(after, a, files, folders) ==
  IF after = "start" /\ ~a.skip_headers /\ files # <<>> THEN "headers"
  ELSE IF after \in {"start", "headers"} /\ (a.skip_index \/ folders # <<>>) THEN "indexes"
  ELSE IF after \in {"start", "headers", "indexes"} /\ ~a.skip_architecture
    THEN "architecture"
  ELSE "summary"

\* main, the root check failing
RejectRoot ==
  /\ pc = "start"
  /\ root_kind # "dir"
  /\ pc' = "done"
  /\ status' = 2
  /\ UNCHANGED <<disk, dirs, unreadable, readonly, root_kind, args, run, language,
                 source_files, files_by_folder, index_paths, stats, cursor, warnings,
                 summary_printed, calls, start_disk, start_dirs, index_disk,
                 first_disk, probe>>

\* main from the root check to the "Bootstrap start" line
Collect ==
  /\ pc = "start"
  /\ root_kind = "dir"
  /\ language' = IF args.language = "auto"
                   THEN detect_language(disk, args.architecture_file, args.index_file)
                   ELSE args.language
  /\ source_files' = collect_source_files(DOMAIN disk, dirs,
                                          normalize_extensions(args.ext), IgnoredDirs(args))
  /\ files_by_folder' = group_files_by_folder(source_files')
  /\ stats' = [Stats0 EXCEPT !.files_scanned = Len(source_files'),
                             !.folders_scanned = Len(files_by_folder')]
  /\ index_paths' = <<>>
  /\ cursor' = 1
  /\ pc' = NextPhase("start", args, source_files', files_by_folder')
  /\ index_disk' = disk
  /\ UNCHANGED <<disk, dirs, unreadable, readonly, root_kind, args, run, warnings,
                 summary_printed, status, calls, start_disk, start_dirs, first_disk,
                 probe>>

\* the loop position after one iteration over a sequence of n elements
Advance(phase, n) ==
  IF cursor < n
    THEN cursor' = cursor + 1 /\ pc' = pc
    ELSE cursor' = 1 /\ pc' = NextPhase(phase, args, source_files, files_by_folder)

\* an OSError leaves main: the traceback is printed and the process exits with 1
Propagate ==
  /\ pc' = "raised"
  /\ status' = 1
  /\ cursor' = cursor

\* the caller of write_if_changed after the call w: what the call
\* wrote is on the disk
Written(w) ==
  /\ calls' = Append(calls, w.call)
  /\ disk' = w.disk
  /\ dirs' = w.dirs

\* bootstrap_headers after the call w of write_if_changed for its file
HeaderWritten(w) ==
  /\ Written(w)
  /\ warnings' = warnings
  /\ IF w.call.result = "raised"
       THEN Propagate /\ stats' = stats
       ELSE /\ Advance("headers", Len(source_files))
            /\ status' = status
            /\ stats' = IF w.call.result \in {"create", "update"}
                          THEN [stats EXCEPT !.headers_added = @ + 1]
                          ELSE stats

\* the loop body of bootstrap_headers for the file path with the text content
HeaderOf(path, content) ==
  IF path \in unreadable
    THEN /\ warnings' = warnings + 1
         /\ Advance("headers", Len(source_files))
         /\ UNCHANGED <<disk, dirs, stats, calls, status>>
  ELSE IF has_complete_header(content, args.max_header_lines)
    THEN /\ Advance("headers", Len(source_files))
         /\ UNCHANGED <<disk, dirs, stats, calls, status, warnings>>
  ELSE HeaderWritten(
         write_if_changed(disk, dirs, path,
                          insert_header(path, content,
                                        build_header(path, content, language)),
                          args.dry_run))

\* one iteration of the loop of bootstrap_headers
BootstrapHeader ==
  /\ pc = "headers"
  /\ HeaderOf(source_files[cursor], disk[source_files[cursor]])
  /\ index_disk' = disk'
  /\ UNCHANGED <<unreadable, readonly, root_kind, args, run, language, source_files,
                 files_by_folder, index_paths, summary_printed, start_disk,
                 start_dirs, first_disk, probe>>

KeepsIndex_never(a, index_file, d) == FALSE

\* bootstrap_indexes leaves the index file of this folder alone
KeepsIndex(a, index_file, d) == a.preserve_existing_index /\ index_file \in DOMAIN d

\* bootstrap_indexes after the call w of write_if_changed for an index file
IndexWritten(w) ==
  /\ Written(w)
  /\ IF w.call.result = "raised"
       THEN Propagate /\ stats' = stats
       ELSE /\ Advance("indexes", Len(files_by_folder))
            /\ status' = status
            /\ stats' = IF w.call.result = "create"
                          THEN [stats EXCEPT !.index_created = @ + 1]
                        ELSE IF w.call.result = "update"
                          THEN [stats EXCEPT !.index_updated = @ + 1]
                        ELSE stats

\* the loop body of bootstrap_indexes for a folder with its files
IndexOf(folder, files, index_file) ==
  /\ index_paths' = Append(index_paths, index_file)
  /\ IF KeepsIndex(args, index_file, disk)
       THEN /\ stats' = [stats EXCEPT !.skipped_existing_index = @ + 1]
            /\ Advance("indexes", Len(files_by_folder))
            /\ UNCHANGED <<disk, dirs, calls, status>>
       ELSE IndexWritten(
              write_if_changed(disk, dirs, index_file,
                               render_index_file(folder, files, language),
                               args.dry_run))

\* the loop of bootstrap_indexes at the item of the sorted folders
IndexOfItem(item) == IndexOf(item[1], item[2], Child(item[1], args.index_file))

\* one iteration of the loop of bootstrap_indexes
BootstrapIndex ==
  /\ pc = "indexes"
  /\ ~args.skip_index
  /\ IndexOfItem(SortedFolders(files_by_folder)[cursor])
  /\ UNCHANGED <<unreadable, readonly, root_kind, args, run, language, source_files,
                 files_by_folder, warnings, summary_printed, start_disk, start_dirs,
                 index_disk, first_disk, probe>>

\* main with --skip-index leaving index_paths empty
IndexPathsOnly_none ==
  /\ pc = "indexes"
  /\ args.skip_index
  /\ index_paths' = <<>>
  /\ cursor' = 1
  /\ pc' = NextPhase("indexes", args, source_files, files_by_folder)
  /\ UNCHANGED <<disk, dirs, unreadable, readonly, root_kind, args, run, language,
                 source_files, files_by_folder, stats, warnings, summary_printed,
                 status, calls, start_disk, start_dirs, index_disk, first_disk, probe>>

\* main with --skip-index: the loop that fills index_paths
IndexPathsOnly ==
  /\ pc = "indexes"
  /\ args.skip_index
  /\ index_paths' = [i \in 1..Len(files_by_folder) |->
                       Child(files_by_folder[i][1], args.index_file)]
  /\ cursor' = 1
  /\ pc' = NextPhase("indexes", args, source_files, files_by_folder)
  /\ UNCHANGED <<disk, dirs, unreadable, readonly, root_kind, args, run, language,
                 source_files, files_by_folder, stats, warnings, summary_printed,
                 status, calls, start_disk, start_dirs, index_disk, first_disk, probe>>

\* bootstrap_architecture after the call w of write_if_changed
ArchitectureWritten(w) ==
  /\ Written(w)
  /\ IF w.call.result = "raised"
       THEN pc' = "raised" /\ status' = 1 /\ stats' = stats
       ELSE /\ pc' = "summary"
            /\ status' = status
            /\ stats' = IF w.call.result = "create"
                          THEN [stats EXCEPT !.architecture_created = @ + 1]
                        ELSE IF w.call.result = "update"
                          THEN [stats EXCEPT !.architecture_updated = @ + 1]
                        ELSE stats

\* bootstrap_architecture for the architecture file of the root
ArchitectureOf(architecture_file) ==
  IF args.preserve_existing_architecture /\ architecture_file \in DOMAIN disk
    THEN /\ stats' = [stats EXCEPT !.skipped_existing_architecture = @ + 1]
         /\ pc' = "summary"
         /\ UNCHANGED <<disk, dirs, calls, status>>
    ELSE ArchitectureWritten(
           write_if_changed(disk, dirs, architecture_file,
                            render_architecture_file(index_paths, language),
                            args.dry_run))

bootstrap_architecture ==
  /\ pc = "architecture"
  /\ ArchitectureOf(Child(Root, args.architecture_file))
  /\ UNCHANGED <<unreadable, readonly, root_kind, args, run, language, source_files,
                 files_by_folder, index_paths, cursor, warnings, summary_printed,
                 start_disk, start_dirs, index_disk, first_disk, probe>>

\* main from "Bootstrap summary:" to return 0
Summary ==
  /\ pc = "summary"
  /\ summary_printed' = TRUE
  /\ status' = 0
  /\ pc' = "done"
  /\ UNCHANGED <<disk, dirs, unreadable, readonly, root_kind, args, run, language,
                 source_files, files_by_folder, index_paths, stats, cursor, warnings,
                 calls, start_disk, start_dirs, index_disk, first_disk, probe>>

\* the same command line is run again on the tree the first invocation left
\* (a dry run has left the tree as it was: running it again is running it once)
Rerun ==
  /\ pc = "done"
  /\ status = 0
  /\ ~args.dry_run
  /\ run = 1
  /\ run' = 2
  /\ pc' = "start"
  /\ status' = -1
  /\ summary_printed' = FALSE
  /\ warnings' = 0
  /\ calls' = <<>>
  /\ stats' = Stats0
  /\ source_files' = <<>>
  /\ files_by_folder' = <<>>
  /\ index_paths' = <<>>
  /\ cursor' = 1
  /\ start_disk' = disk
  /\ start_dirs' = dirs
  /\ index_disk' = disk
  /\ first_disk' = disk
  /\ UNCHANGED <<disk, dirs, unreadable, readonly, root_kind, args, language, probe>>

\* ------------------------------------------------------------------ trees and command lines

\* the most files a modelled tree starts with
MaxFiles == 2

\* a .py file with a shebang, a coding line and two of the three required tags
PyTwoTags == <<"#", "!", "p", "\n", "#", "c", "o", "d", "i", "n", "g", "=", "u", "\n", "#", " ", "@", "i", "n", "p", "u", "t", " ", "@", "o", "u", "t", "p", "u", "t", " ", "@", "d", "o", "c", "-", "s", "y", "n", "c", "\n", "i", "m", "p", "o", "r", "t", " ", "o", "\n", "d", "e", "f", " ", "f", "(">>

\* a file whose header is complete, in mixed case
PyComplete == <<"#", " ", "@", "I", "n", "p", "u", "t", "\n", "#", " ", "@", "O", "U", "T", "P", "U", "T", "\n", "#", " ", "@", "p", "o", "s", "i", "t", "i", "o", "n", "\n", "#", " ", "@", "A", "u", "t", "o", "-", "D", "o", "c", "\n">>

GoPlain == <<"i", "m", "p", "o", "r", "t", " ", "\"", "f", "\"", "\n", "f", "u", "n", "c", " ", "F", "(">>

\* a .py file with one required tag and no newline at its end
PyOneTag == <<"#", " ", "@", "o", "u", "t", "p", "u", "t">>

\* the files a tree is drawn from: path, text, and whether the process may
\* read and write it ("rw"), only read it ("ro") or neither ("none")
Catalogue ==
  << [path |-> <<<<"a">>, <<"s", ".", "p", "y">>>>, content |-> PyTwoTags, mode |-> "rw"],
     [path |-> <<<<"a", "-", "b">>, <<"m", ".", "P", "Y">>>>, content |-> PyComplete, mode |-> "rw"],
     [path |-> <<<<"r", ".", "g", "o">>>>, content |-> GoPlain, mode |-> "rw"],
     [path |-> <<<<"o", "u", "t">>, <<"x", ".", "p", "y">>>>, content |-> <<>>, mode |-> "rw"],
     [path |-> <<<<"a">>, <<".", "h">>, <<"y", ".", "p", "y">>>>, content |-> <<>>, mode |-> "rw"],
     [path |-> <<<<"a">>, <<"I", "N", "D", "E", "X", ".", "m", "d">>>>, content |-> <<"o", "l", "d">>, mode |-> "rw"],
     [path |-> <<<<"A", "R", "C", "H", "I", "T", "E", "C", "T", "U", "R", "E", ".", "m", "d">>>>, content |-> <<"o", "l", "d">>, mode |-> "rw"],
     [path |-> <<<<"a">>, <<"r", "o", ".", "p", "y">>>>, content |-> PyOneTag, mode |-> "ro"],
     [path |-> <<<<"a">>, <<"u", ".", "p", "y">>>>, content |-> <<>>, mode |-> "none"] >>

\* the trees: at most MaxFiles files of the catalogue
Trees == {T \in SUBSET DOMAIN Catalogue : Cardinality(T) <= MaxFiles}

TreeDisk(T) ==
  [p \in {Catalogue[i].path : i \in T} |->
     Catalogue[CHOOSE i \in T : Catalogue[i].path = p].content]

TreeDirs(T) == {Root} \cup UNION {Ancestors(Catalogue[i].path) : i \in T}

DefaultArgs ==
  [language |-> "auto",
   index_file |-> DEFAULT_INDEX_FILE,
   architecture_file |-> DEFAULT_ARCHITECTURE_FILE,
   max_header_lines |-> DefaultMaxHeaderLines,
   ext |-> <<>>,
   ignore_dir |-> <<>>,
   preserve_existing_index |-> FALSE,
   preserve_existing_architecture |-> FALSE,
   skip_headers |-> FALSE,
   skip_index |-> FALSE,
   skip_architecture |-> FALSE,
   dry_run |-> FALSE,
   verbose |-> FALSE]

\* the command lines: the defaults with one option given, with and without --dry-run
OneOption ==
  {DefaultArgs,
   [DefaultArgs EXCEPT !.language = "en"],
   [DefaultArgs EXCEPT !.max_header_lines = 1],
   [DefaultArgs EXCEPT !.max_header_lines = 5],
   [DefaultArgs EXCEPT !.ext = <<<<" ", "M", "D">>>>],
   [DefaultArgs EXCEPT !.ignore_dir = <<<<"a", "-", "b">>>>],
   [DefaultArgs EXCEPT !.preserve_existing_index = TRUE],
   [DefaultArgs EXCEPT !.preserve_existing_architecture = TRUE],
   [DefaultArgs EXCEPT !.skip_headers = TRUE],
   [DefaultArgs EXCEPT !.skip_index = TRUE],
   [DefaultArgs EXCEPT !.skip_architecture = TRUE]}

CommandLines == OneOption \cup {[a EXCEPT !.dry_run = TRUE] : a \in OneOption}

\* main is started on a tree of the catalogue
InitMain ==
  /\ args \in CommandLines
  /\ root_kind \in {"dir", "file", "missing"}
  /\ root_kind # "dir" => args = DefaultArgs
  /\ \E T \in Trees :
       /\ root_kind # "dir" => T = {}
       /\ disk = TreeDisk(T)
       /\ dirs = TreeDirs(T)
       /\ unreadable = {Catalogue[i].path : i \in {j \in T : Catalogue[j].mode = "none"}}
       /\ readonly = {Catalogue[i].path : i \in {j \in T : Catalogue[j].mode = "ro"}}
  /\ pc = "start"
  /\ probe = NoProbe

\* ------------------------------------------------------------------ function bench
\* The pure functions are also applied to inputs drawn from bounded sets: the
\* bench starts with the input in probe.in and one action applies the function.

\* the most lines of a bench text
MaxLines == 3

\* the most items of a bench token list
MaxItems == 6

\* the most fragments of a bench file stem
MaxFragments == 3

\* the sequences of at most n elements of S
SeqsUpTo(S, n) == UNION {[1..k -> S] : k \in 0..n}

StemFragments ==
  {<<"u", "s", "e", "r", "-">>, <<"s", "e", "r", "v", "i", "c", "e">>, <<"-", "r", "e", "p", "o">>, <<"V", "o">>, <<"a", "p", "i">>, <<"C", "o", "n", "t", "r", "o", "l", "l", "e", "r">>, <<"x">>}

BenchStems == {Concat(f) : f \in SeqsUpTo(StemFragments, MaxFragments)} \ {<<>>}

\* the target of the bench calls of write_if_changed
BenchTarget == <<<<"d">>, <<"t", ".", "m", "d">>>>

BenchContents == {<<>>, <<"x">>, <<"y">>}

HeaderLines ==
  {<<"#", " ", "@", "i", "n", "p", "u", "t", " ", "@", "O", "U", "T", "P", "U", "T">>, <<" ", "*", " ", "@", "P", "o", "s", "i", "t", "i", "o", "n">>, <<"@", "d", "o", "c", "-", "s", "y", "n", "c", " ", "x">>, <<"/", "/", " ", "@", "A", "u", "t", "o", "-", "D", "o", "c">>, <<"@", " ", "i", "n", "p", "u", "t">>,
   <<"@", "i", "n", "p", "u", "t", "s", "@", "p", "o", "s", "i", "t", "i", "o", "n">>}

BenchHeaderTexts ==
  {Join(f, <<NL>>) : f \in SeqsUpTo(HeaderLines, MaxLines)}

PyLines ==
  {<<"_", "_", "a", "l", "l", "_", "_", " ", "=", " ", "[", "'", "a", "'", ",", " ", "\"", "b", "\"", "]">>, <<"d", "e", "f", " ", "f", "(", "x", ")", ":">>, <<"c", "l", "a", "s", "s", " ", "C", ":">>, <<" ", "d", "e", "f", " ", "g", "(">>, <<"x", " ", "=", " ", "1">>,
   <<"_", "_", "a", "l", "l", "_", "_", " ", "=", " ", "[", "]">>}

BenchPyTexts == {Join(f, <<NL>>) : f \in SeqsUpTo(PyLines, MaxLines)}

\* the tokens of the bench lists, not in alphabetical order
BenchTokens == <<<<"d">>, <<"a", "1">>, <<"f">>, <<"b">>, <<"g">>, <<"c">>, <<"e">>, <<"h">>, <<"i">>, <<"a", "0">>>>

\* the item at position i: a new token, an earlier token in blanks, or blanks
ItemAt(i, kind) ==
  IF kind = "new" THEN BenchTokens[i]
  ELSE IF kind = "again" THEN <<" ">> \o BenchTokens[(i + 1) \div 2] \o <<NL>>
  ELSE <<" ", NL>>

BenchItemLists ==
  {[i \in DOMAIN f |-> ItemAt(i, f[i])] :
     f \in SeqsUpTo({"new", "again", "blank"}, MaxItems)}

BenchCalls ==
  {[fn |-> "infer_role", in |-> [path |-> <<stem \o <<".", "p", "y">>>>, stem |-> stem],
     out |-> <<>>] : stem \in BenchStems}
  \cup {[fn |-> "has_complete_header",
         in |-> [content |-> c, max_header_lines |-> k], out |-> <<>>] :
        c \in BenchHeaderTexts, k \in 0..MaxLines}
  \cup {[fn |-> "summarize_items", in |-> [items |-> items, lang |-> lang], out |-> <<>>] :
        items \in BenchItemLists, lang \in {"zh", "en"}}
  \cup {[fn |-> "infer_outputs",
         in |-> [path |-> <<<<"m", ".", "p", "y">>>>, content |-> c, lang |-> "en"], out |-> <<>>] :
        c \in BenchPyTexts}
  \cup {[fn |-> "write_if_changed",
         in |-> [path |-> BenchTarget, existing |-> e, new_content |-> c, dry_run |-> b],
         out |-> <<>>] :
        e \in {<<>>} \cup {<<c>> : c \in BenchContents}, c \in BenchContents,
        b \in BOOLEAN}

\* the bench holds a call that has not been made
InitBench ==
  /\ pc = "bench"
  /\ probe \in BenchCalls
  /\ args = [DefaultArgs EXCEPT
               !.dry_run = probe.fn = "write_if_changed" /\ probe.in.dry_run]
  /\ root_kind = "dir"
  /\ IF probe.fn = "write_if_changed" /\ probe.in.existing # <<>>
       THEN /\ disk = [p \in {probe.in.path} |-> probe.in.existing[1]]
            /\ dirs = {Root} \cup Ancestors(probe.in.path)
       ELSE /\ disk = <<>>
            /\ dirs = {Root}
  /\ unreadable = {}
  /\ readonly = {}

Init ==
  /\ InitMain \/ InitBench
  /\ run = 1
  /\ language = "auto"
  /\ source_files = <<>>
  /\ files_by_folder = <<>>
  /\ index_paths = <<>>
  /\ stats = Stats0
  /\ cursor = 1
  /\ warnings = 0
  /\ summary_printed = FALSE
  /\ status = -1
  /\ calls = <<>>
  /\ start_disk = disk
  /\ start_dirs = dirs
  /\ index_disk = disk
  /\ first_disk = disk

\* the bench returns with the value `out`
Return(out) ==
  /\ pc' = "returned"
  /\ probe' = [probe EXCEPT !.out = out]
  /\ UNCHANGED <<disk, dirs, unreadable, readonly, root_kind, args, run, language,
                 source_files, files_by_folder, index_paths, stats, cursor, warnings,
                 summary_printed, status, calls, start_disk, start_dirs, index_disk,
                 first_disk>>

CallInferRole ==
  /\ pc = "bench"
  /\ probe.fn = "infer_role"
  /\ Return(infer_role(probe.in.path))

CallHasCompleteHeader ==
  /\ pc = "bench"
  /\ probe.fn = "has_complete_header"
  /\ Return(has_complete_header(probe.in.content, probe.in.max_header_lines))

CallSummarizeItems ==
  /\ pc = "bench"
  /\ probe.fn = "summarize_items"
  /\ Return(summarize_items(probe.in.items, probe.in.lang, DefaultMaxItems))

CallInferOutputs ==
  /\ pc = "bench"
  /\ probe.fn = "infer_outputs"
  /\ Return(infer_outputs(probe.in.path, probe.in.content, probe.in.lang))

CallWriteIfChanged ==
  /\ pc = "bench"
  /\ probe.fn = "write_if_changed"
  /\ LET w == write_if_changed(disk, dirs, probe.in.path, probe.in.new_content,
                               probe.in.dry_run)
     IN /\ disk' = w.disk
        /\ dirs' = w.dirs
        /\ probe' = [probe EXCEPT !.out = w.call.result]
  /\ pc' = "returned"
  /\ UNCHANGED <<unreadable, readonly, root_kind, args, run, language, source_files,
                 files_by_folder, index_paths, stats, cursor, warnings, summary_printed,
                 status, calls, start_disk, start_dirs, index_disk, first_disk>>

Next ==
  \/ RejectRoot
  \/ Collect
  \/ BootstrapHeader
  \/ BootstrapIndex
  \/ IndexPathsOnly
  \/ bootstrap_architecture
  \/ Summary
  \/ Rerun
  \/ CallInferRole
  \/ CallHasCompleteHeader
  \/ CallSummarizeItems
  \/ CallInferOutputs
  \/ CallWriteIfChanged

Spec == Init /\ [][Next]_vars

\* ------------------------------------------------------------------ properties

\* main is running or has run (the state is not one of the function bench)
InMain == probe = NoProbe

\* the bench has applied the function fn
Returned(fn) == pc = "returned" /\ probe.fn = fn

\* the calls of this invocation that returned
ReturnedCalls == {i \in DOMAIN calls : calls[i].result # "raised"}

\* C1 (in normal mode): in the second of two invocations with the same options,
\* every write_if_changed call returns "unchanged" and the files keep the
\* content the first invocation left.
C1SecondRunWritesNothing ==
  (InMain /\ run = 2 /\ ~args.dry_run) =>
    /\ \A i \in DOMAIN calls : calls[i].result = "unchanged"
    /\ disk = first_disk

\* the tag occurs, in any case, in one of the first k lines of content
OccursInFirst(content, tag, k) ==
  LET lowered == Lower(content)
      breaks == {j \in 1..Len(content) : content[j] = NL}
  IN \E i \in 1..Len(content) :
       /\ StartsAt(lowered, i, tag)
       /\ Cardinality({j \in breaks : j < i}) < k

\* the required tags that occur in the first k lines of content
RequiredIn(content, k) ==
  {i \in DOMAIN REQUIRED_HEADER_TAGS : OccursInFirst(content, REQUIRED_HEADER_TAGS[i], k)}

SyncIn(content, k) ==
  {i \in DOMAIN SYNC_TAGS : OccursInFirst(content, SYNC_TAGS[i], k)}

\* the source files bootstrap_headers has been through
HeadersSeen ==
  IF args.skip_headers \/ pc \in {"start", "raised"} THEN {}
  ELSE IF pc = "headers" THEN {source_files[i] : i \in 1..(cursor - 1)}
  ELSE Range(source_files)

\* C2: has_complete_header(content, K) is true exactly when all three required
\* tags and one of the sync tags occur, in any case, in the first K lines; a
\* readable file with two of the three required tags gets a header: the
\* file with the header in front of its code is handed to write_if_changed.
C2CompleteHeader ==
  /\ Returned("has_complete_header") =>
       (probe.out <=>
          /\ RequiredIn(probe.in.content, probe.in.max_header_lines)
               = DOMAIN REQUIRED_HEADER_TAGS
          /\ SyncIn(probe.in.content, probe.in.max_header_lines) # {})
  /\ (InMain /\ run = 1) =>
       \A path \in HeadersSeen :
         (/\ path \notin unreadable
          /\ Cardinality(RequiredIn(start_disk[path], args.max_header_lines)) = 2) =>
           \E i \in DOMAIN calls :
             /\ calls[i].path = path
             /\ calls[i].old_content = start_disk[path]
             /\ calls[i].new_content # start_disk[path]
             /\ calls[i].result = "update"
             /\ Contains(calls[i].new_content, <<"@", "p", "o", "s", "i", "t", "i", "o", "n">>)
             /\ EndsWith(calls[i].new_content, <<"i", "m", "p", "o", "r", "t", " ", "o", "\n", "d", "e", "f", " ", "f", "(">>)

\* C2 witness: a complete header in mixed case is recognised, and only when
\* enough lines are scanned
C2Witness ==
  /\ Returned("has_complete_header")
  /\ probe.out
  /\ Contains(probe.in.content, <<"@", "O", "U", "T", "P", "U", "T">>)
  /\ ~has_complete_header(probe.in.content, probe.in.max_header_lines - 1)

\* the files after the writes of the calls cs[1..n] on the files d
RECURSIVE Replay(_, _, _)
Replay(d, cs, n) ==
  IF n = 0 THEN d
  ELSE LET before == Replay(d, cs, n - 1)
       IN IF cs[n].result \in {"create", "update"}
            THEN [q \in DOMAIN before \cup {cs[n].path} |->
                    IF q = cs[n].path THEN cs[n].new_content ELSE before[q]]
            ELSE before

\* C3: write_if_changed writes nothing and returns "unchanged" when the file
\* exists with the proposed content; otherwise, in normal mode, it writes the
\* content and returns "create" for a file that did not exist and "update" for
\* one that did; the files of a run change by these writes only.
C3WriteContract ==
  /\ Returned("write_if_changed") =>
       IF probe.in.existing = <<probe.in.new_content>>
         THEN probe.out = "unchanged" /\ disk = start_disk
         ELSE ~probe.in.dry_run =>
                /\ probe.in.path \in DOMAIN disk
                /\ disk[probe.in.path] = probe.in.new_content
                /\ probe.out = IF probe.in.existing = <<>> THEN "create" ELSE "update"
  /\ (InMain /\ ~args.dry_run) => disk = Replay(start_disk, calls, Len(calls))

\* C4: with --dry-run no file changes and no file or directory is created,
\* and every write_if_changed call whose content differs from the file's
\* returns "create" (no such file) or "update".
C4DryRunWritesNothing ==
  (InMain /\ args.dry_run) =>
    /\ disk = start_disk
    /\ dirs = start_dirs
    /\ \A i \in ReturnedCalls :
         IF ~calls[i].existed THEN calls[i].result = "create"
         ELSE IF calls[i].old_content # calls[i].new_content
           THEN calls[i].result = "update"
         ELSE calls[i].result = "unchanged"

\* C4 witness: a dry run has ended after a "create" and an "update"
C4Witness ==
  /\ InMain
  /\ args.dry_run
  /\ pc = "done"
  /\ status = 0
  /\ \E i, j \in DOMAIN calls : calls[i].result = "update" /\ calls[j].result = "create"
  /\ <<<<"a">>, <<"s", ".", "p", "y">>>> \in DOMAIN disk
  /\ <<<<"a">>, <<"I", "N", "D", "E", "X", ".", "m", "d">>>> \notin DOMAIN disk

\* the index files that exist when the index phase starts
ExistingIndexes ==
  {Child(files_by_folder[i][1], args.index_file) : i \in DOMAIN files_by_folder}
    \cap DOMAIN index_disk

\* C5: with --preserve-existing-index, an index file that exists when the
\* index phase starts keeps its content and is counted once in
\* skipped_existing_index, and in neither index_created nor index_updated.
C5PreservedIndex ==
  (InMain /\ args.preserve_existing_index /\ ~args.skip_index
     /\ pc \in {"indexes", "architecture", "summary", "done", "raised"}) =>
    /\ \A index_file \in ExistingIndexes :
         /\ index_file \in DOMAIN disk
         /\ disk[index_file] = index_disk[index_file]
         /\ \A i \in DOMAIN calls : calls[i].path # index_file
    /\ pc \in {"architecture", "summary", "done"} =>
         /\ stats.skipped_existing_index = Cardinality(ExistingIndexes)
         /\ stats.index_created + stats.index_updated
              <= Len(files_by_folder) - Cardinality(ExistingIndexes)

\* C5 witness: the run ended with the index of a folder kept although it
\* lists none of the folder's source files
C5Witness ==
  /\ InMain
  /\ args.preserve_existing_index
  /\ pc = "done"
  /\ run = 1
  /\ <<<<"a">>, <<"s", ".", "p", "y">>>> \in Range(source_files)
  /\ <<<<"a">>, <<"I", "N", "D", "E", "X", ".", "m", "d">>>> \in DOMAIN disk
  /\ disk[<<<<"a">>, <<"I", "N", "D", "E", "X", ".", "m", "d">>>>] = <<"o", "l", "d">>
  /\ stats.skipped_existing_index = 1

\* C6: main returns 2 only when the root is not a directory; with a directory
\* as root no exception leaves main, and main ends with the summary printed
\* and status 0.
C6OnlyRootFails ==
  InMain =>
    /\ status = 2 => root_kind # "dir"
    /\ root_kind = "dir" => pc # "raised" /\ status \in {-1, 0}
    /\ (root_kind = "dir" /\ pc = "done") => summary_printed /\ status = 0

\* the file name ends in one of the extensions, in any case
HasAllowedExtension(path, extensions) ==
  \E e \in extensions :
    Len(Name(path)) > Len(e) /\ EndsWith(Lower(Name(path)), e)

\* a directory on the path is in the ignore set or hidden
BelowIgnored(path, ignored_dirs) ==
  \E i \in 1..(Len(path) - 1) : path[i] \in ignored_dirs \/ path[i][1] = "."

\* C7: collect_source_files returns no file below a directory whose name is
\* in the ignore set or starts with '.', and returns every other file whose
\* extension, in any case, is allowed.
C7IgnoredDirsPruned ==
  (InMain /\ pc \notin {"start"} /\ root_kind = "dir") =>
    Range(source_files) =
      {path \in DOMAIN start_disk :
         /\ HasAllowedExtension(path, normalize_extensions(args.ext))
         /\ ~BelowIgnored(path, IgnoredDirs(args))}

\* C7 witness: a tree with a source file below a hidden directory and
\* another, in upper case, that is collected
C7Witness ==
  /\ InMain
  /\ pc = "done"
  /\ run = 1
  /\ <<<<"a">>, <<".", "h">>, <<"y", ".", "p", "y">>>> \in DOMAIN start_disk
  /\ source_files = << <<<<"a", "-", "b">>, <<"m", ".", "P", "Y">>>> >>

\* the fixed role labels
RoleLabels ==
  {"Controller", "Service", "Repository", "Handler", "Model", "Schema", "Config",
   "Utility", "API", "UI", "Module"}

\* the entries of ROLE_KEYWORDS whose keyword occurs in the lower-cased stem
KeywordHits(stem) ==
  {k \in DOMAIN ROLE_KEYWORDS : Contains(Lower(stem), ROLE_KEYWORDS[k][1])}

\* C8: infer_role returns the role of the first entry of ROLE_KEYWORDS whose
\* keyword occurs in the lower-cased stem ("user-service-repo" is "Service"),
\* "Module" when none occurs, and always one of the fixed labels.
C8FirstKeywordWins ==
  Returned("infer_role") =>
    /\ probe.out \in RoleLabels
    /\ KeywordHits(probe.in.stem) = {} => probe.out = "Module"
    /\ \A k \in KeywordHits(probe.in.stem) :
         (\A j \in KeywordHits(probe.in.stem) : k <= j) =>
           probe.out = ROLE_KEYWORDS[k][2]
    /\ probe.in.stem = <<"u", "s", "e", "r", "-", "s", "e", "r", "v", "i", "c", "e", "-", "r", "e", "p", "o">> => probe.out = "Service"

\* C8 witness: the stem "user-service-repo"
C8Witness ==
  /\ Returned("infer_role")
  /\ probe.in.stem = <<"u", "s", "e", "r", "-", "s", "e", "r", "v", "i", "c", "e", "-", "r", "e", "p", "o">>
  /\ probe.out = "Service"

\* the positions of items at which a token occurs for the first time
FirstSeen(items) ==
  {i \in DOMAIN items :
     /\ Strip(items[i]) # <<>>
     /\ \A j \in 1..(i - 1) : Strip(items[j]) # Strip(items[i])}

\* the n-th smallest element of a set of numbers
Nth(S, n) == CHOOSE i \in S : Cardinality({j \in S : j < i}) = n - 1

\* the first n tokens of items, blanks and repetitions left out
FirstTokens(items, n) == [k \in 1..n |-> Strip(items[Nth(FirstSeen(items), k)])]

\* C9: summarize_items lists the tokens in first-seen order without blanks and
\* repetitions: more than 5 give the first 5 and one ", ...", 1 to 5 give all
\* of them, none gives the placeholder of the locale, never the empty string.
C9SummaryOfItems ==
  Returned("summarize_items") =>
    LET n == Cardinality(FirstSeen(probe.in.items))
    IN /\ probe.out # <<>>
       /\ n > 5 => probe.out = Join(FirstTokens(probe.in.items, 5), <<",", " ">>) \o <<",", " ", ".", ".", ".">>
       /\ n \in 1..5 => probe.out = Join(FirstTokens(probe.in.items, n), <<",", " ">>)
       /\ n = 0 =>
            probe.out = IF probe.in.lang = "zh"
                          THEN <<"zh:to be completed (update from the code)">>
                          ELSE <<"To be completed (update from code as needed).">>

\* C9 witness: six tokens are cut to five
C9Witness ==
  /\ Returned("summarize_items")
  /\ Cardinality(FirstSeen(probe.in.items)) = 6
  /\ probe.out = <<"d", ",", " ", "a", "1", ",", " ", "f", ",", " ", "b", ",", " ", "g", ",", " ", ".", ".", ".">>

\* the names of the __all__ list of content, <<>> when there is no such list
AllNames(content) ==
  LET all_match == SearchFrom(PyAll, content, 1)
  IN IF all_match = <<>> THEN <<>>
     ELSE re_findall(PyQuotedName, SubSeq(content, all_match[1], all_match[2] - 1))

\* C10: for a .py file with an __all__ list, the outputs are the names of the
\* list; def and class names are outputs only of a file without such a list.
C10AllListPreferred ==
  Returned("infer_outputs") =>
    IF AllNames(probe.in.content) # <<>>
      THEN probe.out = summarize_items(AllNames(probe.in.content), probe.in.lang,
                                       DefaultMaxItems)
      ELSE SearchFrom(PyAll, probe.in.content, 1) = <<>> =>
             probe.out = summarize_items(
               LET names == re_findall(PyDef, probe.in.content)
                            \o re_findall(PyClass, probe.in.content)
               IN IF names = <<>> THEN <<Stem(probe.in.path)>> ELSE names,
               probe.in.lang, DefaultMaxItems)

\* the architecture phase of this invocation has called write_if_changed and
\* the call returned "create" or "update"
WroteArchitecture ==
  /\ InMain
  /\ pc \in {"summary", "done"}
  /\ ~args.skip_architecture
  /\ calls # <<>>
  /\ calls[Len(calls)].path = Child(Root, args.architecture_file)
  /\ calls[Len(calls)].result \in {"create", "update"}

\* the text the architecture phase handed to write_if_changed
ArchitectureDocument == calls[Len(calls)].new_content

\* the "- [module](link) - description" lines of a document
EntryLines(doc) == SelectSeq(Split(doc, <<NL>>), LAMBDA l : StartsWith(l, <<"-", " ", "[">>))

\* the link of an entry line: the text between "](" and the next ")"
LinkOf(line) ==
  LET rest == From(line, Find(line, <<"]", "(">>) + 2)
  IN SubSeq(rest, 1, Find(rest, <<")">>) - 1)

\* the links of the entries of a document, in the order of the entries
EntryLinks(doc) == [i \in DOMAIN EntryLines(doc) |-> LinkOf(EntryLines(doc)[i])]

\* the folder an entry links into, as a path relative to the root ("." for
\* the root itself)
FolderOfLink(link) == RelPosix(Parent(Split(link, <<"/">>)))

\* C11: in the architecture document that is written, the module entries are
\* in ascending order of the folder's path relative to the root, also for
\* folders such as "a" and "a-b".
C11EntriesInFolderOrder ==
  WroteArchitecture =>
    LET links == EntryLinks(ArchitectureDocument)
    IN \A i, j \in DOMAIN links :
         i < j => StrLess(FolderOfLink(links[i]), FolderOfLink(links[j]))

\* the folders that directly hold a discovered source file
SourceFolders == {Parent(source_files[i]) : i \in DOMAIN source_files}

\* the "no module folders" placeholder lines of a document
PlaceholderLines(doc) ==
  SelectSeq(Split(doc, <<NL>>),
            LAMBDA l : l \in {<<"-", " ", "(", "n", "o", " ", "m", "o", "d", "u", "l", "e", " ", "f", "o", "l", "d", "e", "r", "s", " ", "f", "o", "u", "n", "d", ")">>,
                              <<"zh:- (no module folders yet)">>})

\* C12: the architecture document that is written has exactly one module
\* entry for each folder that directly holds a discovered source file, linking
\* to <folder>/<index file name>, and has the one placeholder entry exactly
\* when no source file was discovered, whether the index phase ran or not.
C12OneEntryPerFolder ==
  WroteArchitecture =>
    LET links == EntryLinks(ArchitectureDocument)
        placeholders == PlaceholderLines(ArchitectureDocument)
    IN /\ Len(links) = Cardinality(SourceFolders)
       /\ Range(links) = {RelPosix(Child(f, args.index_file)) : f \in SourceFolders}
       /\ Len(placeholders) = IF source_files = <<>> THEN 1 ELSE 0

\* the index phase was skipped and the document written links to the index
\* files of two folders, none of which is on the disk
C12Witness ==
  /\ WroteArchitecture
  /\ args.skip_index
  /\ Cardinality(SourceFolders) = 2
  /\ Len(EntryLinks(ArchitectureDocument)) = 2
  /\ \A f \in SourceFolders : Child(f, args.index_file) \notin DOMAIN disk

====
